---- MODULE Spec2Model ----
(***************************************************************************)
(* DreamLayer backend: the txt2img and img2img request handlers            *)
(* (dream_layer_backend/txt2img_server.py, img2img_server.py).             *)
(*                                                                         *)
(* Each request is one thread of the Flask server.  A handler is cut into  *)
(* steps at every access to state shared between threads (the engine       *)
(* input directory, the per-mode trace CSV, the clock) and at every exit.  *)
(*                                                                         *)
(* File names are pairs <<stem, extension>>, so that str.endswith on the   *)
(* extension is computed and not assumed.  None is the empty tuple.        *)
(***************************************************************************)
EXTENDS Integers, Sequences, FiniteSets, TLC

\* ----------------------------------------------------------------- bounds
\* Number of request threads the server handles concurrently.
NumReq == 2
\* int(time.time()), the clock in whole seconds, takes the values 0..MaxClock.
MaxClock == 1
\* The engine returns at most this many images for one workflow.
MaxImages == 1
\* Elapsed times are 0..MaxElapsed ten-thousandths of a second.
MaxElapsed == 7
\* The number of images counted for one seconds-per-image computation.
MaxCount == 3
\* An input_image string has at most this many tokens.
MaxLen == 4

Reqs == 1..NumReq
Modes == {"txt2img", "img2img"}

\* ------------------------------------------------------------ file names
None == <<>>
EmptyStr == <<"", "">>
Absent == <<"ABSENT">>
Unknown == <<"unknown", "">>
CkptA == <<"a", ".safetensors">>
CkptB == <<"b", ".ckpt">>
Notes == <<"notes", ".txt">>

\* What os.listdir(CHECKPOINTS_DIR) can give: the listing, in directory
\* order, or an exception when the directory is missing.
DirMissing == <<<<"ENOENT">>>>
Listings == {DirMissing, <<>>, <<CkptA>>, <<Notes, CkptB, CkptA>>}

\* The ckpt_name values a request body carries (Absent: no such key).
RequestedCkpts == {Absent, None, EmptyStr, CkptA, Notes}

\* ---------------------------------------------------------------- helpers
Range(s) == {s[i] : i \in 1..Len(s)}

\* fname.endswith(('.safetensors', '.ckpt'))
endswith_ckpt(fname) == Len(fname) = 2 /\ fname[2] \in {".safetensors", ".ckpt"}

\* Python truthiness of a ckpt_name: None and "" are falsy.
truthy(name) == name # None /\ name # EmptyStr

\* data.get("ckpt_name", "unknown")
get_ckpt_name(requested) == IF requested = Absent THEN Unknown ELSE requested

\* get_allowed_checkpoints(): the listing filtered to checkpoint files, [] on
\* any exception.
get_allowed_checkpoints(listing) ==
    IF listing = DirMissing THEN <<>>
    ELSE SelectSeq(listing, endswith_ckpt)

resolve_img2img_last(name, ALLOWED_CKPTS) ==
    IF ~truthy(name) \/ name \notin Range(ALLOWED_CKPTS)
    THEN IF ALLOWED_CKPTS # <<>>
         THEN [rejected |-> FALSE, ckpt_name |-> ALLOWED_CKPTS[Len(ALLOWED_CKPTS)]]
         ELSE [rejected |-> TRUE, ckpt_name |-> name]
    ELSE [rejected |-> FALSE, ckpt_name |-> name]

\* img2img_server.py 179-186: the else belongs to the inner if.
resolve_img2img(name, ALLOWED_CKPTS) ==
    IF ~truthy(name) \/ name \notin Range(ALLOWED_CKPTS)
    THEN IF ALLOWED_CKPTS # <<>>
         THEN [rejected |-> FALSE, ckpt_name |-> Head(ALLOWED_CKPTS)]
         ELSE [rejected |-> TRUE, ckpt_name |-> name]
    ELSE [rejected |-> FALSE, ckpt_name |-> name]

resolve_txt2img_keep(name, ALLOWED_CKPTS) ==
    IF ~truthy(name) \/ name \notin Range(ALLOWED_CKPTS)
    THEN [rejected |-> FALSE, ckpt_name |-> name]
    ELSE [rejected |-> TRUE, ckpt_name |-> name]

\* txt2img_server.py 129-136: the else belongs to the OUTER if, so a valid
\* name is answered with 500 and an invalid name with an empty list passes.
resolve_txt2img(name, ALLOWED_CKPTS) ==
    IF ~truthy(name) \/ name \notin Range(ALLOWED_CKPTS)
    THEN IF ALLOWED_CKPTS # <<>>
         THEN [rejected |-> FALSE, ckpt_name |-> Head(ALLOWED_CKPTS)]
         ELSE [rejected |-> FALSE, ckpt_name |-> name]
    ELSE [rejected |-> TRUE, ckpt_name |-> name]

\* ------------------------------------------------------------------ state
VARIABLES
    pc,               \* where each request's handler stands
    mode,             \* the endpoint the request was posted to
    posted,           \* history: the JSON body as it was posted
    data,             \* request.json, as the handler reads and updates it
    ckpt_name,        \* the handler's local ckpt_name after resolution
    temp_filename,    \* img2img: the ingestion file's name (its second)
    workflow,         \* the compiled workflow
    comfy_response,   \* what send_to_comfyui returned
    registry,         \* img2img: how the run-registry block ended
    response,         \* the HTTP response returned
    dispatches,       \* history: calls of send_to_comfyui by the request
    appended,         \* history: the <<log, row>> appends the request made
    registry_posts,   \* history: POSTs the request sent to the run registry
    remove_attempts,  \* history: os.remove calls on the ingestion file
    now,              \* the latest int(time.time()) read
    checkpoints_dir,  \* what os.listdir(CHECKPOINTS_DIR) gives
    input_dir,        \* COMFY_INPUT_DIR: file name -> whose image it holds
    trace,            \* per mode: the trace CSV (exists, rows)
    unit              \* a stateless operation on its own: its input and result

vars == <<unit, pc, mode, posted, data, ckpt_name, temp_filename, workflow, comfy_response,
          registry, response, dispatches, appended, registry_posts,
          remove_attempts, now, checkpoints_dir, input_dir, trace>>

local_vars == <<mode, posted, data, ckpt_name, temp_filename, workflow, comfy_response,
                registry, response>>
history_vars == <<dispatches, appended, registry_posts, remove_attempts>>
shared_vars == <<now, checkpoints_dir, input_dir, trace>>
request_vars == <<pc, local_vars, history_vars, shared_vars>>

\* The content of a name of the input directory: {} when there is no such
\* file, else {r}, the image request r saved.
NoOne == {}
NoFile == <<>>

\* f"input_{int(time.time())}.png": one name for each second.
make_temp_filename(second) == <<"input_", second, ".png">>

FileNames == {make_temp_filename(t) : t \in 0..MaxClock}

REQUIRED_FIELDS == <<"prompt", "input_image", "denoising_strength">>

NoData == [fields |-> {}, ckpt_name |-> Absent, image |-> "none"]
NoWorkflow == [ckpt_name |-> None, input_image |-> NoFile]
NoComfyResponse == [error |-> "", all_images |-> 0 - 1]
NoResponse == [code |-> 0, status |-> "", message |-> "", run_id |-> 0]
TRACE_HEADERS == [req |-> 0, images_generated |-> 0 - 1, ckpt_name |-> <<"ckpt_name">>]

\* The bodies posted to /api/img2img: every required field and a decodable
\* or an undecodable image, with each ckpt_name; or a required field missing.
Img2ImgBodies ==
    { [fields |-> Range(REQUIRED_FIELDS), ckpt_name |-> c, image |-> "valid"] :
        c \in RequestedCkpts }
    \cup { [fields |-> Range(REQUIRED_FIELDS), ckpt_name |-> Absent, image |-> "invalid"] }
    \cup { [fields |-> Range(REQUIRED_FIELDS) \ {f}, ckpt_name |-> Absent, image |-> "valid"] :
        f \in Range(REQUIRED_FIELDS) }
    \cup { [fields |-> {"denoising_strength"}, ckpt_name |-> Absent, image |-> "none"] }

\* The bodies posted to /api/txt2img: {} (falsy), a body with a prompt, or a
\* body that is not empty and has no prompt.
Txt2ImgBodies ==
    { [fields |-> {"prompt"}, ckpt_name |-> c, image |-> "none"] : c \in RequestedCkpts }
    \cup { NoData }
    \cup { [fields |-> {"negative_prompt"}, ckpt_name |-> Absent, image |-> "none"] }

\* No stateless operation is looked at.
NoUnit == [op |-> "none"]

\* No request has arrived yet.
InitRequests ==
    /\ pc = [r \in Reqs |-> "idle"]
    /\ mode = [r \in Reqs |-> "txt2img"]
    /\ posted = [r \in Reqs |-> NoData]
    /\ data = [r \in Reqs |-> NoData]
    /\ ckpt_name = [r \in Reqs |-> None]
    /\ temp_filename = [r \in Reqs |-> NoFile]
    /\ workflow = [r \in Reqs |-> NoWorkflow]
    /\ comfy_response = [r \in Reqs |-> NoComfyResponse]
    /\ registry = [r \in Reqs |-> "none"]
    /\ response = [r \in Reqs |-> NoResponse]
    /\ dispatches = [r \in Reqs |-> 0]
    /\ appended = [r \in Reqs |-> <<>>]
    /\ registry_posts = [r \in Reqs |-> 0]
    /\ remove_attempts = [r \in Reqs |-> 0]
    /\ now = 0
    /\ input_dir = [f \in FileNames |-> NoOne]
    /\ trace = [m \in Modes |-> [exists |-> FALSE, rows |-> <<>>]]

Init ==
    /\ InitRequests
    /\ checkpoints_dir \in Listings
    /\ unit = NoUnit

\* return jsonify(...), code: the handler ends.
Return(r, code, status, message, run_id) ==
    /\ response' = [response EXCEPT ![r] =
          [code |-> code, status |-> status, message |-> message, run_id |-> run_id]]
    /\ pc' = [pc EXCEPT ![r] = "done"]

\* f'Missing required field: {field}'
MissingFieldMessage(field) ==
    CASE field = "prompt" -> "Missing required field: prompt"
      [] field = "input_image" -> "Missing required field: input_image"
      [] OTHER -> "Missing required field: denoising_strength"

\* Mutant: the loop keeps going and reports the last field missing.
FirstMissing_last(body) ==
    LET idx == {i \in 1..Len(REQUIRED_FIELDS) : REQUIRED_FIELDS[i] \notin body.fields}
    IN  IF idx = {} THEN "" ELSE REQUIRED_FIELDS[CHOOSE i \in idx : \A j \in idx : i >= j]

\* for field in required_fields: if field not in data: the first one missing.
FirstMissing(body) ==
    LET idx == {i \in 1..Len(REQUIRED_FIELDS) : REQUIRED_FIELDS[i] \notin body.fields}
    IN  IF idx = {} THEN "" ELSE REQUIRED_FIELDS[CHOOSE i \in idx : \A j \in idx : i <= j]

\* -------------------------------------------------------------- the steps
\* A POST arrives at one of the two endpoints.  Requests are numbered in
\* the order of their arrival.
Receive(r) ==
    /\ pc[r] = "idle"
    /\ IF r = 1 THEN TRUE ELSE pc[r - 1] # "idle"
    /\ \E m \in Modes :
         \E body \in IF m = "img2img" THEN Img2ImgBodies ELSE Txt2ImgBodies :
            /\ mode' = [mode EXCEPT ![r] = m]
            /\ posted' = [posted EXCEPT ![r] = body]
            /\ data' = [data EXCEPT ![r] = body]
    /\ pc' = [pc EXCEPT ![r] = "validate"]
    /\ UNCHANGED <<unit, ckpt_name, temp_filename, workflow, comfy_response, registry,
                   response, history_vars, shared_vars>>

\* txt2img_server.py 79-80, 195-199: `if data:` else 400 "No data received".
ValidateTxt2Img(r) ==
    /\ pc[r] = "validate"
    /\ mode[r] = "txt2img"
    /\ IF data[r].fields = {}
       THEN Return(r, 400, "error", "No data received", 0)
       ELSE /\ pc' = [pc EXCEPT ![r] = "resolve"]
            /\ UNCHANGED response
    /\ UNCHANGED <<unit, mode, posted, data, ckpt_name, temp_filename, workflow,
                   comfy_response, registry, history_vars, shared_vars>>

\* img2img_server.py 81-96: verify_input_directory() raising lands in the
\* top-level except (500); then the required fields, in order.
ValidateImg2Img(r) ==
    /\ pc[r] = "validate"
    /\ mode[r] = "img2img"
    /\ \/ Return(r, 500, "error", "Input directory is not writable", 0)
       \/ /\ FirstMissing(data[r]) # ""
          /\ Return(r, 400, "error", MissingFieldMessage(FirstMissing(data[r])), 0)
       \/ /\ FirstMissing(data[r]) = ""
          /\ pc' = [pc EXCEPT ![r] = "decode"]
          /\ UNCHANGED response
    /\ UNCHANGED <<unit, mode, posted, data, ckpt_name, temp_filename, workflow,
                   comfy_response, registry, history_vars, shared_vars>>

\* Mutant: the payload is written first and only found undecodable when the
\* saved file is re-opened.
DecodeImage_after_save(r) ==
    /\ pc[r] = "decode"
    /\ pc' = [pc EXCEPT ![r] = "save"]
    /\ UNCHANGED <<unit, local_vars, history_vars, shared_vars>>

\* img2img_server.py 99-115, 152-157: base64.b64decode and Image.open; an
\* exception is caught by the inner except and answered with 400.
DecodeImage(r) ==
    /\ pc[r] = "decode"
    /\ IF data[r].image = "valid"
       THEN /\ pc' = [pc EXCEPT ![r] = "save"]
            /\ UNCHANGED response
       ELSE Return(r, 400, "error", "Invalid input image", 0)
    /\ UNCHANGED <<unit, mode, posted, data, ckpt_name, temp_filename, workflow,
                   comfy_response, registry, history_vars, shared_vars>>

\* img2img_server.py 117-128: the clock is read (it never runs backwards),
\* the file is named after the second, and image.save creates the file or
\* overwrites the one of that name.
SaveImage(r) ==
    /\ pc[r] = "save"
    /\ \E t \in now..MaxClock :
         /\ now' = t
         /\ temp_filename' = [temp_filename EXCEPT ![r] = make_temp_filename(t)]
         /\ input_dir' = [input_dir EXCEPT ![make_temp_filename(t)] = {r}]
    /\ pc' = [pc EXCEPT ![r] = "verify"]
    /\ UNCHANGED <<unit, mode, posted, data, ckpt_name, workflow, comfy_response,
                   registry, response, history_vars, checkpoints_dir, trace>>

\* img2img_server.py 129-141, 152-157: the file must exist and re-open; a
\* RuntimeError raised here is caught by the inner except: 400.
VerifyImage(r) ==
    /\ pc[r] = "verify"
    /\ \/ /\ input_dir[temp_filename[r]] = NoOne
          /\ Return(r, 400, "error", "Invalid input image", 0)
       \/ /\ input_dir[temp_filename[r]] # NoOne
          /\ \/ Return(r, 400, "error", "Invalid input image", 0)
             \/ /\ pc' = [pc EXCEPT ![r] = "resolve"]
                /\ UNCHANGED response
    /\ UNCHANGED <<unit, mode, posted, data, ckpt_name, temp_filename, workflow,
                   comfy_response, registry, history_vars, shared_vars>>

\* The handler's checkpoint block.
resolve(m, name, ALLOWED_CKPTS) ==
    IF m = "img2img" THEN resolve_img2img(name, ALLOWED_CKPTS)
    ELSE resolve_txt2img(name, ALLOWED_CKPTS)

\* txt2img_server.py 110-139, img2img_server.py 160-189.
ResolveCheckpoint(r) ==
    /\ pc[r] = "resolve"
    /\ LET res == resolve(mode[r], get_ckpt_name(data[r].ckpt_name),
                          get_allowed_checkpoints(checkpoints_dir))
       IN  IF res.rejected
           THEN /\ response' = [response EXCEPT ![r] =
                     [code |-> 500, status |-> "",
                      message |-> "No checkpoints available on server", run_id |-> 0]]
                /\ pc' = [pc EXCEPT ![r] = "done"]
                /\ UNCHANGED <<ckpt_name, data>>
           ELSE /\ ckpt_name' = [ckpt_name EXCEPT ![r] = res.ckpt_name]
                /\ data' = [data EXCEPT ![r].ckpt_name = res.ckpt_name]
                /\ pc' = [pc EXCEPT ![r] = "compile"]
                /\ UNCHANGED response
    /\ UNCHANGED <<unit, mode, posted, temp_filename, workflow, comfy_response,
                   registry, history_vars, shared_vars>>

\* transform_to_txt2img_workflow / transform_to_img2img_workflow: the graph
\* loads data['ckpt_name'] and, for img2img, data['input_image'].
transform_to_workflow(d, file) == [ckpt_name |-> d.ckpt_name, input_image |-> file]

\* The compiler rejects a request without a prompt (it may reject others).
must_reject(d) == "prompt" \notin d.fields

\* txt2img_server.py 141-142, 201-208; img2img_server.py 191-192, 323-328:
\* an exception of the compiler lands in the top-level except: 500.
Compile(r) ==
    /\ pc[r] = "compile"
    /\ \/ /\ Return(r, 500, "error", "workflow compilation failed", 0)
          /\ UNCHANGED workflow
       \/ /\ ~must_reject(data[r])
          /\ workflow' = [workflow EXCEPT ![r] =
                transform_to_workflow(data[r], temp_filename[r])]
          /\ pc' = [pc EXCEPT ![r] = "dispatch"]
          /\ UNCHANGED response
    /\ UNCHANGED <<unit, mode, posted, data, ckpt_name, temp_filename, comfy_response,
                   registry, history_vars, shared_vars>>

\* send_to_comfyui(workflow): an error (and then no images), or the images.
DispatchResults ==
    { [error |-> "CUDA OOM", all_images |-> 0] }
    \cup { [error |-> "", all_images |-> n] : n \in 0..MaxImages }

\* txt2img_server.py 158-168, img2img_server.py 208-218.
Dispatch(r) ==
    /\ pc[r] = "dispatch"
    /\ \E res \in DispatchResults :
         comfy_response' = [comfy_response EXCEPT ![r] = res]
    /\ dispatches' = [dispatches EXCEPT ![r] = @ + 1]
    /\ pc' = [pc EXCEPT ![r] = "trace_check"]
    /\ UNCHANGED <<unit, mode, posted, data, ckpt_name, temp_filename, workflow,
                   registry, response, appended, registry_posts,
                   remove_attempts, shared_vars>>

\* len(comfy_response.get("all_images", []))
images_generated(res) == res.all_images

\* "error" in comfy_response
has_error(res) == res.error # ""

\* Mutant: the engine's error is looked at before the trace is written.
TraceCheck_error_first(r) ==
    /\ pc[r] = "trace_check"
    /\ pc' = [pc EXCEPT ![r] =
          IF has_error(comfy_response[r]) THEN "respond"
          ELSE IF trace[mode[r]].exists THEN "trace_append" ELSE "trace_create"]
    /\ UNCHANGED <<unit, local_vars, history_vars, shared_vars>>

\* ensure_csv_exists (txt2img_server.py 41) / img2img_server.py 235:
\* if not os.path.exists(TRACE_CSV)
TraceCheck(r) ==
    /\ pc[r] = "trace_check"
    /\ pc' = [pc EXCEPT ![r] =
          IF trace[mode[r]].exists THEN "trace_append" ELSE "trace_create"]
    /\ UNCHANGED <<unit, local_vars, history_vars, shared_vars>>

\* open(TRACE_CSV, "w"): creates the file, or truncates the one that exists.
open_w(file) == [exists |-> TRUE, rows |-> <<>>]

\* txt2img_server.py 42, img2img_server.py 236.
TraceCreate(r) ==
    /\ pc[r] = "trace_create"
    /\ trace' = [trace EXCEPT ![mode[r]] = open_w(@)]
    /\ pc' = [pc EXCEPT ![r] = "trace_header"]
    /\ UNCHANGED <<unit, local_vars, history_vars, now, checkpoints_dir, input_dir>>

\* writer.writerow(TRACE_HEADERS) on the "w" handle, flushed when the with
\* block closes the file: written at offset 0, over whatever another thread
\* has appended since the open (row-granular: over the first row).
write_header(file) ==
    [file EXCEPT !.rows = IF @ = <<>> THEN <<TRACE_HEADERS>>
                          ELSE [@ EXCEPT ![1] = TRACE_HEADERS]]

\* txt2img_server.py 43-44, img2img_server.py 237-238.
TraceHeader(r) ==
    /\ pc[r] = "trace_header"
    /\ trace' = [trace EXCEPT ![mode[r]] = write_header(@)]
    /\ pc' = [pc EXCEPT ![r] = "trace_append"]
    /\ UNCHANGED <<unit, local_vars, history_vars, now, checkpoints_dir, input_dir>>

\* The row of one request (timing and GPU columns left out).
trace_row(r) ==
    [req |-> r, images_generated |-> images_generated(comfy_response[r]),
     ckpt_name |-> ckpt_name[r]]

\* open(TRACE_CSV, "a") and writer.writerow(row).
append_row(file, row) == [exists |-> TRUE, rows |-> Append(file.rows, row)]

\* txt2img_server.py 60-70, img2img_server.py 241-251.
TraceAppend(r) ==
    /\ pc[r] = "trace_append"
    /\ trace' = [trace EXCEPT ![mode[r]] = append_row(@, trace_row(r))]
    /\ appended' = [appended EXCEPT ![r] = Append(@, <<mode[r], trace_row(r)>>)]
    /\ pc' = [pc EXCEPT ![r] = "respond"]
    /\ UNCHANGED <<unit, local_vars, dispatches, registry_posts, remove_attempts,
                   now, checkpoints_dir, input_dir>>

\* Mutant: an engine error is answered by one more dispatch.
Respond_retry(r) ==
    /\ pc[r] = "respond"
    /\ IF has_error(comfy_response[r])
       THEN /\ pc' = [pc EXCEPT ![r] = IF dispatches[r] < 2 THEN "dispatch" ELSE "done"]
            /\ response' = [response EXCEPT ![r] =
                  IF dispatches[r] < 2 THEN @
                  ELSE [code |-> 500, status |-> "error",
                        message |-> comfy_response[r].error, run_id |-> 0]]
       ELSE IF mode[r] = "txt2img"
            THEN Return(r, 200, "success", "Workflow sent to ComfyUI successfully", 0)
            ELSE /\ pc' = [pc EXCEPT ![r] = "registry"]
                 /\ UNCHANGED response
    /\ UNCHANGED <<unit, mode, posted, data, ckpt_name, temp_filename, workflow,
                   comfy_response, registry, history_vars, shared_vars>>

\* Mutant: a fixed message instead of the engine's own.
Respond_fixed_message(r) ==
    /\ pc[r] = "respond"
    /\ IF has_error(comfy_response[r])
       THEN Return(r, 500, "error", "ComfyUI returned an error", 0)
       ELSE IF mode[r] = "txt2img"
            THEN Return(r, 200, "success", "Workflow sent to ComfyUI successfully", 0)
            ELSE /\ pc' = [pc EXCEPT ![r] = "registry"]
                 /\ UNCHANGED response
    /\ UNCHANGED <<unit, mode, posted, data, ckpt_name, temp_filename, workflow,
                   comfy_response, registry, history_vars, shared_vars>>

\* txt2img_server.py 180-193, img2img_server.py 261-265.
Respond(r) ==
    /\ pc[r] = "respond"
    /\ IF has_error(comfy_response[r])
       THEN Return(r, 500, "error", comfy_response[r].error, 0)
       ELSE IF mode[r] = "txt2img"
            THEN Return(r, 200, "success", "Workflow sent to ComfyUI successfully", 0)
            ELSE /\ pc' = [pc EXCEPT ![r] = "registry"]
                 /\ UNCHANGED response
    /\ UNCHANGED <<unit, mode, posted, data, ckpt_name, temp_filename, workflow,
                   comfy_response, registry, history_vars, shared_vars>>

\* How the try block of img2img_server.py 286-304 can end.
RegistryOutcomes == {"build_error", "connection_error", "timeout", "non200", "ok"}

\* Mutant: only the status code is handled; an exception of requests.post
\* leaves the try block and reaches the top-level except.
RegisterRun_post_uncaught(r) ==
    /\ pc[r] = "registry"
    /\ \E outcome \in RegistryOutcomes :
         /\ registry' = [registry EXCEPT ![r] = outcome]
         /\ registry_posts' = [registry_posts EXCEPT ![r] =
               IF outcome = "build_error" THEN @ ELSE @ + 1]
         /\ IF outcome \in {"connection_error", "timeout"}
            THEN Return(r, 500, "error", "registry unreachable", 0)
            ELSE /\ pc' = [pc EXCEPT ![r] = "cleanup"]
                 /\ UNCHANGED response
    /\ UNCHANGED <<unit, mode, posted, data, ckpt_name, temp_filename, workflow,
                   comfy_response, dispatches, appended, remove_attempts,
                   shared_vars>>

\* img2img_server.py 285-304: every exception is caught and logged.
RegisterRun(r) ==
    /\ pc[r] = "registry"
    /\ \E outcome \in RegistryOutcomes :
         /\ registry' = [registry EXCEPT ![r] = outcome]
         /\ registry_posts' = [registry_posts EXCEPT ![r] =
               IF outcome = "build_error" THEN @ ELSE @ + 1]
    /\ pc' = [pc EXCEPT ![r] = "cleanup"]
    /\ UNCHANGED <<unit, mode, posted, data, ckpt_name, temp_filename, workflow,
                   comfy_response, response, dispatches, appended,
                   remove_attempts, shared_vars>>

\* run_config.run_id if 'run_config' in locals() else None (0: null); the
\* run id of request r is r.
response_run_id(r, outcome) == IF outcome = "build_error" THEN 0 ELSE r

\* img2img_server.py 306-321: the response is built, the file removed
\* (a failure is logged), the response returned.
Cleanup(r) ==
    /\ pc[r] = "cleanup"
    /\ remove_attempts' = [remove_attempts EXCEPT ![r] = @ + 1]
    /\ input_dir' = [input_dir EXCEPT ![temp_filename[r]] = NoOne]
    /\ Return(r, 200, "success", "Workflow sent to ComfyUI successfully",
              response_run_id(r, registry[r]))
    /\ UNCHANGED <<unit, mode, posted, data, ckpt_name, temp_filename, workflow,
                   comfy_response, registry, dispatches, appended,
                   registry_posts, now, checkpoints_dir, trace>>

Next ==
    \E r \in Reqs :
         \/ Receive(r)
         \/ ValidateTxt2Img(r)
         \/ ValidateImg2Img(r)
         \/ DecodeImage(r)
         \/ SaveImage(r)
         \/ VerifyImage(r)
         \/ ResolveCheckpoint(r)
         \/ Compile(r)
         \/ Dispatch(r)
         \/ TraceCheck(r)
         \/ TraceCreate(r)
         \/ TraceHeader(r)
         \/ TraceAppend(r)
         \/ Respond(r)
         \/ RegisterRun(r)
         \/ Cleanup(r)

Spec == Init /\ [][Next]_vars

\* ------------------------------------------------- stateless operations
\* The operations below touch no state shared between requests.  Each is
\* taken on its own: unit holds its input, and then its input and result.
\* Durations are whole ten-thousandths of a second, so that round(x, 4) is
\* rounding to an integer; a quotient is the fraction <<num, den>> in lowest
\* terms.

RECURSIVE GCD(_, _)
GCD(a, b) == IF b = 0 THEN a ELSE GCD(b, a % b)

ZeroDivisionError == <<"ZeroDivisionError">>

\* a / b on numbers, a >= 0.
Divide(a, b) ==
    IF b = 0 THEN ZeroDivisionError
    ELSE LET g == GCD(a, b) IN <<a \div g, b \div g>>

\* Mutant: the guard is images_generated > 1.
time_per_image_img2img_gt1(elapsed, n) ==
    IF n > 1 THEN Divide(elapsed, n) ELSE None

\* time_per_image = elapsed / images_generated if images_generated > 0 else None
time_per_image_img2img(elapsed, n) ==
    IF n > 0 THEN Divide(elapsed, n) ELSE None

\* time_per_image = None if images_generated == 0 else total_time / images_generated
time_per_image_txt2img(total_time, n) ==
    IF n = 0 THEN None ELSE Divide(total_time, n)

\* round(q, 4): to the nearest unit, a tie to the even one.
round4(q) ==
    LET f == q[1] \div q[2]
        twice == 2 * (q[1] % q[2])
    IN  IF twice < q[2] THEN f
        ELSE IF twice > q[2] THEN f + 1
        ELSE IF f % 2 = 0 THEN f ELSE f + 1

\* The CSV cell with no characters in it.
EmptyCell == <<>>

\* round(time_per_image, 4) if time_per_image is not None else ""
time_per_image_cell(tpi) ==
    IF tpi # None THEN <<round4(tpi)>> ELSE EmptyCell

TimePerImageInputs ==
    [op : {"time_per_image"}, handler : Modes, elapsed : 0..MaxElapsed,
     n : 0..MaxCount, done : {FALSE}]

TimePerImageDone(tpi) ==
    [op |-> "time_per_image", handler |-> unit.handler,
     elapsed |-> unit.elapsed, n |-> unit.n, done |-> TRUE,
     time_per_image |-> tpi, cell |-> time_per_image_cell(tpi)]

\* log_inference_trace: the seconds per image and its cell in the row.
TimePerImageTxt2Img ==
    /\ unit.op = "time_per_image" /\ unit.handler = "txt2img" /\ ~unit.done
    /\ unit' = TimePerImageDone(time_per_image_txt2img(unit.elapsed, unit.n))
    /\ UNCHANGED request_vars

\* handle_img2img: the seconds per image and its cell in the row.
TimePerImageImg2Img ==
    /\ unit.op = "time_per_image" /\ unit.handler = "img2img" /\ ~unit.done
    /\ unit' = TimePerImageDone(time_per_image_img2img(unit.elapsed, unit.n))
    /\ UNCHANGED request_vars

\* An input_image string is a sequence of tokens: the scheme "data:", the
\* comma, and "A", any run of other characters.
Alphabet == {"data:", ",", "A"}
Strings == UNION {[1..k -> Alphabet] : k \in 0..MaxLen}
DataPrefix == <<"data:">>

\* str.startswith
startswith(s, prefix) ==
    /\ Len(s) >= Len(prefix)
    /\ SubSeq(s, 1, Len(prefix)) = prefix

\* sep in s
contains(s, sep) == \E i \in 1..Len(s) : s[i] = sep

\* str.split(sep): the segments between the separators, in order.
RECURSIVE split(_, _)
split(s, sep) ==
    IF ~contains(s, sep) THEN <<s>>
    ELSE LET i == CHOOSE j \in 1..Len(s) :
                      /\ s[j] = sep
                      /\ \A k \in 1..(j - 1) : s[k] # sep
         IN  <<SubSeq(s, 1, i - 1)>> \o split(SubSeq(s, i + 1, Len(s)), sep)

\* Mutant: the last segment, input_image.split(',')[-1].
b64decode_input_last(input_image) ==
    IF startswith(input_image, DataPrefix)
    THEN IF contains(input_image, ",")
         THEN split(input_image, ",")[Len(split(input_image, ","))]
         ELSE input_image
    ELSE input_image

\* The string handle_img2img hands to base64.b64decode; split(',')[1] is the
\* second segment.
b64decode_input(input_image) ==
    IF startswith(input_image, DataPrefix)
    THEN IF contains(input_image, ",")
         THEN split(input_image, ",")[2]
         ELSE input_image
    ELSE input_image

PayloadInputs == [op : {"payload"}, input_image : Strings, done : {FALSE}]

\* handle_img2img, from data['input_image'] to the call of b64decode.
ExtractPayload ==
    /\ unit.op = "payload" /\ ~unit.done
    /\ unit' = [op |-> "payload", input_image |-> unit.input_image,
                done |-> TRUE, decoded |-> b64decode_input(unit.input_image)]
    /\ UNCHANGED request_vars

\* An interrupt POST: the endpoint, what the engine is doing, and whether the
\* engine accepts an interrupt signal.
InterruptInputs ==
    [op : {"interrupt"}, endpoint : Modes, engine : {"idle", "running"},
     accepts : BOOLEAN, done : {FALSE}]

\* interrupt_workflow(): the interrupt signal is sent to the engine, which
\* drops its running job if it accepts the signal; the result is whether the
\* signal was accepted.
interrupt_workflow(engine, accepts) ==
    [engine |-> IF accepts /\ engine = "running" THEN "interrupted" ELSE engine,
     success |-> accepts]

InterruptDone(engine, signalled, resp) ==
    [op |-> "interrupt", endpoint |-> unit.endpoint, engine |-> engine,
     accepts |-> unit.accepts, done |-> TRUE, signalled |-> signalled,
     response |-> resp]

\* handle_txt2img_interrupt
InterruptTxt2Img ==
    /\ unit.op = "interrupt" /\ unit.endpoint = "txt2img" /\ ~unit.done
    /\ LET res == interrupt_workflow(unit.engine, unit.accepts)
       IN  unit' = InterruptDone(res.engine, TRUE,
                       [code |-> 200, status |-> "received",
                        interrupted |-> res.success])
    /\ UNCHANGED request_vars

\* handle_img2img_interrupt
InterruptImg2Img ==
    /\ unit.op = "interrupt" /\ unit.endpoint = "img2img" /\ ~unit.done
    /\ unit' = InterruptDone(unit.engine, FALSE,
                   [code |-> 200, status |-> "received"])
    /\ UNCHANGED request_vars

InitStateless ==
    /\ InitRequests
    /\ checkpoints_dir = <<>>
    /\ unit \in TimePerImageInputs \cup PayloadInputs \cup InterruptInputs

NextStateless ==
    \/ TimePerImageTxt2Img
    \/ TimePerImageImg2Img
    \/ ExtractPayload
    \/ InterruptTxt2Img
    \/ InterruptImg2Img

SpecStateless == InitStateless /\ [][NextStateless]_vars

\* ------------------------------------------------------------- the claims
NoCheckpointsMessage == "No checkpoints available on server"

\* The responses a handler returns before it reaches its checkpoint block.
EarlyMessages ==
    {"No data received", "Input directory is not writable", "Invalid input image"}
    \cup {MissingFieldMessage(REQUIRED_FIELDS[i]) : i \in 1..Len(REQUIRED_FIELDS)}

\* The request has been through the checkpoint block of its handler.
PastResolve(r) ==
    \/ pc[r] \in {"compile", "dispatch", "trace_check", "trace_create", "trace_header",
                  "trace_append", "respond", "registry", "cleanup"}
    \/ pc[r] = "done" /\ response[r].message \notin EarlyMessages

\* The discoverable checkpoint set, in directory order, stated from the
\* listing itself: the files named *.safetensors or *.ckpt.
Discoverable ==
    IF checkpoints_dir = DirMissing THEN {}
    ELSE {f \in Range(checkpoints_dir) : f[2] = ".safetensors" \/ f[2] = ".ckpt"}

FirstDiscoverable ==
    LET idx == {i \in 1..Len(checkpoints_dir) : checkpoints_dir[i] \in Discoverable}
    IN  checkpoints_dir[CHOOSE i \in idx : \A j \in idx : i <= j]

Rejected(r) == pc[r] = "done" /\ response[r].message = NoCheckpointsMessage

\* The checkpoint the request has used so far, wherever it has used one.
UsesOnly(r, name) ==
    /\ ckpt_name[r] = name
    /\ workflow[r] # NoWorkflow => workflow[r].ckpt_name = name
    /\ \A i \in 1..Len(appended[r]) : appended[r][i][2].ckpt_name = name

\* C1: a request whose ckpt_name is in the discoverable set is not rejected
\* and uses that very name for compilation, dispatch and its trace row, in
\* both handlers.
C1_CheckpointIdentity ==
    \A r \in Reqs :
        (PastResolve(r) /\ posted[r].ckpt_name \in Discoverable)
            => (~Rejected(r) /\ UsesOnly(r, posted[r].ckpt_name))

\* C2: a request whose ckpt_name is missing, empty or outside a non-empty
\* discoverable set is not rejected and uses the first discoverable entry of
\* the directory listing, which is in the set and is not the name requested.
C2_CheckpointFallback ==
    \A r \in Reqs :
        (PastResolve(r) /\ posted[r].ckpt_name \notin Discoverable /\ Discoverable # {})
            => /\ ~Rejected(r)
               /\ UsesOnly(r, FirstDiscoverable)
               /\ ckpt_name[r] \in Discoverable
               /\ ckpt_name[r] # posted[r].ckpt_name
               /\ pc[r] = "done" =>
                     (workflow[r] # NoWorkflow \/
                      response[r].message = "workflow compilation failed")

C2_Witness ==
    \E r \in Reqs :
        /\ pc[r] = "done" /\ dispatches[r] = 1
        /\ posted[r].ckpt_name = Notes
        /\ checkpoints_dir = <<Notes, CkptB, CkptA>>
        /\ workflow[r].ckpt_name = CkptB

\* C3: with an empty discoverable set every request that reaches the
\* checkpoint block ends with the 500 "no checkpoints available" response,
\* and is neither compiled nor dispatched.
C3_NoCheckpoints ==
    \A r \in Reqs :
        (PastResolve(r) /\ Discoverable = {})
            => /\ pc[r] = "done"
               /\ response[r].code = 500
               /\ response[r].message = NoCheckpointsMessage
               /\ workflow[r] = NoWorkflow
               /\ dispatches[r] = 0

\* C4: an img2img request that created its ingestion file has attempted to
\* remove it by the time its response is returned, whatever the exit.
C4_IngestedImageRemoved ==
    \A r \in Reqs :
        (pc[r] = "done" /\ temp_filename[r] # NoFile) => remove_attempts[r] >= 1

\* The request has written its ingestion file and not yet returned.
HoldsFile(r) ==
    pc[r] \in {"verify", "resolve", "compile", "dispatch", "trace_check", "trace_create",
              "trace_header", "trace_append", "respond", "registry", "cleanup"}

IsPrefix(s, t) == Len(s) <= Len(t) /\ \A i \in 1..Len(s) : s[i] = t[i]

\* C6: each trace log only grows: every step leaves the rows there are in
\* place (none truncated, none rewritten), and the header is the first row.
C6_TraceAppendOnly ==
    [][\A m \in Modes :
          /\ IsPrefix(trace[m].rows, trace'[m].rows)
          /\ trace'[m].rows # <<>> => trace'[m].rows[1] = TRACE_HEADERS]_vars

\* C7: a request that was handed to the dispatcher has appended exactly one
\* row, to the log of its own mode, when its response is returned (and never
\* more than one before); a request that was not dispatched has appended none.
C7_OneRowPerDispatch ==
    \A r \in Reqs :
        /\ Len(appended[r]) <= 1
        /\ \A i \in 1..Len(appended[r]) :
              appended[r][i][1] = mode[r] /\ appended[r][i][2].req = r
        /\ dispatches[r] = 0 => appended[r] = <<>>
        /\ (pc[r] = "done" /\ dispatches[r] > 0) => Len(appended[r]) = 1

C7_Witness ==
    \E r1, r2 \in Reqs :
        /\ pc[r1] = "done" /\ pc[r2] = "done"
        /\ mode[r1] = "txt2img" /\ mode[r2] = "img2img"
        /\ has_error(comfy_response[r1]) /\ response[r2].code = 200
        /\ Len(appended[r1]) = 1 /\ Len(appended[r2]) = 1

\* C8: when the engine's response carries an error, the response is 500 with
\* status "error" and the engine's text, the request's trace row was appended
\* with images_generated = 0, and the run registry was not contacted.
C8_EngineError ==
    \A r \in Reqs :
        (pc[r] = "done" /\ has_error(comfy_response[r]))
            => /\ response[r].code = 500
               /\ response[r].status = "error"
               /\ response[r].message = comfy_response[r].error
               /\ Len(appended[r]) = 1
               /\ appended[r][1][2].images_generated = 0
               /\ registry_posts[r] = 0 /\ registry[r] = "none"

C8_Witness ==
    \E r \in Reqs :
        /\ pc[r] = "done" /\ mode[r] = "img2img"
        /\ comfy_response[r].error = "CUDA OOM"
        /\ response[r].message = "CUDA OOM"

\* C9: after a successful img2img dispatch, however the run-registry block
\* ends, the response is 200 "success" and the ingestion file's removal has
\* been attempted.
C9_RegistryFailureSwallowed ==
    \A r \in Reqs :
        /\ (pc[r] = "done" /\ mode[r] = "img2img" /\ dispatches[r] > 0
                /\ ~has_error(comfy_response[r]))
              => /\ registry[r] \in RegistryOutcomes
                 /\ response[r].code = 200
                 /\ response[r].status = "success"
                 /\ remove_attempts[r] = 1
        /\ registry[r] # "none" => pc[r] \in {"cleanup", "done"}

C9_Witness ==
    \E r1, r2 \in Reqs :
        /\ pc[r1] = "done" /\ registry[r1] = "timeout" /\ response[r1].code = 200
        /\ pc[r2] = "done" /\ registry[r2] = "non200" /\ response[r2].code = 200

\* C10: when the POST to the run registry raises a connection error after a
\* successful img2img dispatch, run_id in the response is null.
C10_RunIdNullOnRegistryFailure ==
    \A r \in Reqs :
        (pc[r] = "done" /\ registry[r] = "connection_error") => response[r].run_id = 0

InputDirMessage == "Input directory is not writable"

\* The message that names the first required field the posted body lacks.
ExpectedMissingMessage(body) ==
    IF "prompt" \notin body.fields THEN "Missing required field: prompt"
    ELSE IF "input_image" \notin body.fields THEN "Missing required field: input_image"
    ELSE "Missing required field: denoising_strength"

LacksField(body) == \E f \in {"prompt", "input_image", "denoising_strength"} : f \notin body.fields

\* The request has touched nothing: no ingestion file, no checkpoint
\* resolution, no workflow, no dispatch, no trace row.
NothingDone(r) ==
    /\ temp_filename[r] = NoFile
    /\ \A f \in FileNames : r \notin input_dir[f]
    /\ ckpt_name[r] = None
    /\ workflow[r] = NoWorkflow
    /\ dispatches[r] = 0
    /\ appended[r] = <<>>

\* C11 as stated: every img2img request lacking a required field is answered
\* with 400 naming the first field missing, and creates no file, dispatches
\* nothing and writes no trace row.
C11_MissingFieldAlways400 ==
    \A r \in Reqs :
        (mode[r] = "img2img" /\ pc[r] \notin {"idle", "validate"} /\ LacksField(posted[r]))
            => /\ pc[r] = "done"
               /\ response[r].code = 400
               /\ response[r].message = ExpectedMissingMessage(posted[r])
               /\ NothingDone(r)

\* C11 amended: an img2img request lacking a required field is answered with
\* 400 naming the first field missing, unless verify_input_directory() failed
\* first (500); either way it creates no file, dispatches nothing and writes
\* no trace row.
C11_MissingField ==
    \A r \in Reqs :
        (mode[r] = "img2img" /\ pc[r] \notin {"idle", "validate"} /\ LacksField(posted[r]))
            => /\ pc[r] = "done"
               /\ \/ /\ response[r].code = 400
                     /\ response[r].status = "error"
                     /\ response[r].message = ExpectedMissingMessage(posted[r])
                  \/ /\ response[r].code = 500
                     /\ response[r].message = InputDirMessage
               /\ NothingDone(r)

C11_Witness ==
    \E r \in Reqs :
        /\ pc[r] = "done" /\ mode[r] = "img2img"
        /\ posted[r].fields = {"denoising_strength"}
        /\ response[r].code = 400
        /\ response[r].message = "Missing required field: prompt"

\* C12 as stated: every img2img request whose image cannot be decoded ends
\* with 400 (invalid image), having created no file and having resolved,
\* compiled, dispatched and traced nothing.
C12_InvalidImageAlways400 ==
    \A r \in Reqs :
        (mode[r] = "img2img" /\ posted[r].image = "invalid"
              /\ pc[r] \notin {"idle", "validate", "decode"})
            => /\ pc[r] = "done"
               /\ response[r].code = 400
               /\ response[r].message = "Invalid input image"
               /\ NothingDone(r)

\* C12 amended: an img2img request whose image cannot be decoded ends with
\* 400 (invalid image), unless verify_input_directory() failed first (500);
\* either way no file was created and nothing was resolved, compiled,
\* dispatched or traced.
C12_InvalidImage ==
    \A r \in Reqs :
        (mode[r] = "img2img" /\ posted[r].image = "invalid"
              /\ pc[r] \notin {"idle", "validate", "decode"})
            => /\ pc[r] = "done"
               /\ \/ /\ response[r].code = 400
                     /\ response[r].status = "error"
                     /\ response[r].message = "Invalid input image"
                  \/ /\ response[r].code = 500
                     /\ response[r].message = InputDirMessage
               /\ NothingDone(r)

C12_Witness ==
    \E r \in Reqs :
        /\ pc[r] = "done" /\ mode[r] = "img2img"
        /\ posted[r].image = "invalid"
        /\ response[r].code = 400
        /\ response[r].message = "Invalid input image"

\* C13: an img2img request whose ingestion file was written but is missing
\* or fails the re-open check ends with 500, and is not dispatched.
C13_StorageErrorIs500 ==
    \A r \in Reqs :
        (pc[r] = "done" /\ temp_filename[r] # NoFile /\ ckpt_name[r] = None
              /\ response[r].message = "Invalid input image")
            => (response[r].code = 500 /\ dispatches[r] = 0)

\* C16: a txt2img request with a non-empty body that lacks the prompt, or
\* whose compilation fails, is answered with 400, never 500, and is never
\* dispatched.
C16_Txt2ImgValidation400 ==
    \A r \in Reqs :
        (pc[r] = "done" /\ mode[r] = "txt2img" /\ posted[r].fields # {}
              /\ ("prompt" \notin posted[r].fields
                  \/ response[r].message = "workflow compilation failed"))
            => (response[r].code = 400 /\ dispatches[r] = 0)

\* C17: a request of either mode whose dispatch succeeded has sent exactly
\* one run record to the run registry, after its trace row, by the time its
\* response is returned; a request without a successful dispatch sends none.
C17_RunRecordedAfterSuccess ==
    \A r \in Reqs :
        /\ registry_posts[r] > 0 =>
              (dispatches[r] > 0 /\ ~has_error(comfy_response[r]) /\ Len(appended[r]) = 1)
        /\ (pc[r] = "done" /\ dispatches[r] > 0 /\ ~has_error(comfy_response[r]))
              => registry_posts[r] = 1

\* C19: a request is handed to the dispatcher at most once; once the engine
\* has reported an error the request ends with an error response after that
\* one dispatch, and a 200 "success" response is only returned after exactly
\* one dispatch whose response carried no error.
C19_NoRetry ==
    \A r \in Reqs :
        /\ dispatches[r] <= 1
        /\ (dispatches[r] = 1 /\ has_error(comfy_response[r]))
              => pc[r] \in {"trace_check", "trace_create", "trace_header",
                            "trace_append", "respond", "done"}
        /\ (pc[r] = "done" /\ dispatches[r] = 1 /\ has_error(comfy_response[r]))
              => (response[r].code = 500 /\ response[r].status = "error")
        /\ (pc[r] = "done" /\ response[r].code = 200)
              => (response[r].status = "success" /\ dispatches[r] = 1
                  /\ ~has_error(comfy_response[r]))

C19_Witness ==
    \E r1, r2 \in Reqs :
        /\ pc[r1] = "done" /\ pc[r2] = "done"
        /\ has_error(comfy_response[r1]) /\ response[r1].code = 500
        /\ dispatches[r1] = 1
        /\ response[r2].code = 200 /\ dispatches[r2] = 1

TimePerImageComputed == unit.op = "time_per_image" /\ unit.done

\* C14: in both handlers, for every elapsed time and image count n >= 0,
\* time_per_image is None, and its cell of the trace row empty, exactly when
\* n = 0; otherwise it equals elapsed / n; no computation divides by zero.
C14_TimePerImage ==
    TimePerImageComputed =>
        /\ unit.time_per_image # ZeroDivisionError
        /\ (unit.time_per_image = None) <=> (unit.n = 0)
        /\ (unit.cell = EmptyCell) <=> (unit.n = 0)
        /\ unit.n > 0 =>
               /\ Len(unit.time_per_image) = 2
               /\ unit.time_per_image[1] * unit.n
                      = unit.elapsed * unit.time_per_image[2]

\* C14 witness: img2img spent time on a workflow that produced no image, and
\* the seconds per image is None with an empty cell.
C14_Witness ==
    /\ TimePerImageComputed
    /\ unit.handler = "img2img"
    /\ unit.n = 0 /\ unit.elapsed > 0
    /\ unit.time_per_image = None /\ unit.cell = EmptyCell

InterruptAnswered == unit.op = "interrupt" /\ unit.done

\* C15: every interrupt endpoint (txt2img and img2img), on POST, requests
\* cancellation of whatever the engine is running and responds 200 with
\* status "received" and a boolean interrupted that tells whether the
\* interrupt signal was accepted.
C15_InterruptRequestsCancel ==
    InterruptAnswered =>
        /\ unit.signalled
        /\ unit.response.code = 200
        /\ unit.response.status = "received"
        /\ "interrupted" \in DOMAIN unit.response
        /\ unit.response.interrupted = unit.accepts

PayloadExtracted == unit.op = "payload" /\ unit.done

\* The index of the first comma of s, Len(s) + 1 when it has none.
FirstComma(s) ==
    IF contains(s, ",")
    THEN CHOOSE j \in 1..Len(s) :
             s[j] = "," /\ \A k \in 1..(j - 1) : s[k] # ","
    ELSE Len(s) + 1

AfterFirstComma(s) == SubSeq(s, FirstComma(s) + 1, Len(s))

UpToFirstComma(s) == SubSeq(s, 1, FirstComma(s) - 1)

\* C18 as stated: for every input_image that contains a comma, what is
\* base64-decoded is the whole substring after the first comma, whether or
\* not the string begins with 'data:'; without a comma it is the whole string.
C18_PayloadAfterFirstComma ==
    PayloadExtracted =>
        unit.decoded = IF contains(unit.input_image, ",")
                       THEN AfterFirstComma(unit.input_image)
                       ELSE unit.input_image

\* C18 amended: for an input_image that begins with 'data:' and contains a
\* comma, what is base64-decoded is the substring after the first comma up to
\* the next comma or the end; every other string is decoded whole.
C18_PayloadOfDataUrl ==
    PayloadExtracted =>
        unit.decoded = IF /\ startswith(unit.input_image, DataPrefix)
                          /\ contains(unit.input_image, ",")
                       THEN UpToFirstComma(AfterFirstComma(unit.input_image))
                       ELSE unit.input_image

\* C18 witness: a data URL with a payload after its comma has been cut down
\* to that payload.
C18_Witness ==
    /\ PayloadExtracted
    /\ unit.input_image = <<"data:", "A", ",", "A">>
    /\ unit.decoded = <<"A">>

====
